---- MODULE Spec2Model ----
(***************************************************************************)
(* Model of powershift.cluster (src/src/powershift/cluster/__init__.py):   *)
(* the profile lifecycle commands up / down / destroy / status / list /    *)
(* env, the volumes and users sub-commands, and the construction of the    *)
(* "oc cluster up" command line.                                           *)
(*                                                                         *)
(* Every command is one action.  A command is a straight line of steps     *)
(* with early exits, so an action runs the command's steps in source order *)
(* over a working record and stops at the first step that exits.  What the *)
(* external programs answer (exit statuses, whether the container          *)
(* survives a failed start or stop) is an input of the action.             *)
(*                                                                         *)
(* Text is modelled piecewise: a Python string is a sequence of pieces, a  *)
(* command line is the sequence of its flags <<name, value pieces>>.       *)
(***************************************************************************)
EXTENDS Integers, Sequences, FiniteSets, TLC

\* ------------------------------------------------------------------ bounds

\* External programs exit with a status in 0..MaxRC.
MaxRC == 2
\* Longest --env list given on one invocation.
MaxEnv == 2
\* Largest --volumes count given on one invocation.
MaxVolumes == 1

\* Longest --claim value typed, in characters.
MaxRef == 5
\* Longest --size value typed, in characters.
MaxSize == 4

\* ------------------------------------------------------------------ values

\* Python's None, for an optional string.
None == "<None>"

\* The profile names the user may type, in the order "list" shows them.
AllProfileNames == <<"default", "research">>
ProfileNames == { AllProfileNames[i] : i \in 1..Len(AllProfileNames) }

\* The --env entries the user may give: the longest list and its reverse.
AllEnvVars == <<"A=1", "B=2", "C=3", "D=4">>
EnvList == SubSeq(AllEnvVars, 1, MaxEnv)
Reverse(t) == [ i \in 1..Len(t) |-> t[Len(t) + 1 - i] ]

\* Whitespace pieces, as str.strip() removes them from both ends.
Whitespace == { " ", "\n", "\t" }

RECURSIVE LStrip(_)
LStrip(t) ==
    IF t # <<>> /\ Head(t) \in Whitespace THEN LStrip(Tail(t)) ELSE t

RECURSIVE RStrip(_)
RStrip(t) ==
    IF t # <<>> /\ t[Len(t)] \in Whitespace THEN RStrip(SubSeq(t, 1, Len(t) - 1)) ELSE t

\* str.strip() on piecewise text.
Strip(t) == RStrip(LStrip(t))

\* The pieces of a string the user typed: the empty string has none.
Text(s) == IF s = "" THEN <<>> ELSE <<s>>

\* Python truthiness of an optional string option.
Truthy(s) == s # None /\ s # ""

\* ----------------------------------------------------------------- options

\* The options of "cluster up" at their click defaults (--volumes is bounded
\* by MaxVolumes, so its default is taken as 0 here).
DefaultOptions ==
    [ image |-> None, version |-> None, public_hostname |-> None,
      routing_suffix |-> None, logging |-> FALSE, metrics |-> FALSE,
      volumes |-> 0, volume_size |-> "10Gi", loglevel |-> 0,
      server_loglevel |-> 0, env |-> <<>>, http_proxy |-> None,
      https_proxy |-> None, no_proxy |-> <<>>, identity_provider |-> "none" ]

\* The option combinations the user may give.
UpOptions ==
    { DefaultOptions,
      [DefaultOptions EXCEPT !.public_hostname = "console.example.com",
                             !.version = "v1.4.1",
                             !.image = "registry.example.com/origin",
                             !.env = EnvList],
      [DefaultOptions EXCEPT !.env = Reverse(EnvList)],
      [DefaultOptions EXCEPT !.identity_provider = "htpasswd",
                             !.volumes = MaxVolumes,
                             !.routing_suffix = "apps.example.com"],
      [DefaultOptions EXCEPT !.http_proxy = "http://proxy:3128",
                             !.no_proxy = <<"localhost">>,
                             !.version = "v1.5.0",
                             !.logging = TRUE, !.loglevel = 1] }

\* ------------------------------------------------------------ command line

\* One element of the Python list "command": a flag and the pieces of its
\* value (no pieces for a bare flag).  ' '.join(command) is the sequence.
Flag(name, value) == <<name, value>>

\* command.append('--flag "%s"' % item) for each item of a repeated option.
Flags(name, items) == [ i \in 1..Len(items) |-> Flag(name, Text(items[i])) ]

ContainerProfileDir(profile) == <<"/var/lib/powershift/profiles/", profile>>

\* Mutant: the routing suffix is synthesized for the loopback address too.
BuildCommand_SuffixOnLoopback(profile, o, ipaddr) ==
    LET suffix == IF o.routing_suffix = None
                  THEN IF Truthy(ipaddr)
                       THEN <<"apps.", profile, ".", ipaddr, ".xip.io">>
                       ELSE <<>>
                  ELSE Text(o.routing_suffix)
    IN  << Flag("oc cluster up", <<>>) >>
        \o (IF ~Truthy(o.public_hostname) /\ Truthy(ipaddr)
            THEN << Flag("--public-hostname", Text(ipaddr)) >> ELSE <<>>)
        \o (IF suffix # <<>> THEN << Flag("--routing-suffix", suffix) >> ELSE <<>>)
        \o << Flag("--host-data-dir", ContainerProfileDir(profile) \o <<"/data">>),
              Flag("--host-config-dir", ContainerProfileDir(profile) \o <<"/config">>),
              Flag("--use-existing-config", <<>>) >>
        \o (IF Truthy(o.image) THEN << Flag("--image", Text(o.image)) >> ELSE <<>>)
        \o (IF Truthy(o.version) THEN << Flag("--version", Text(o.version)) >> ELSE <<>>)
        \o (IF o.logging THEN << Flag("--logging", <<>>) >> ELSE <<>>)
        \o (IF o.metrics THEN << Flag("--metrics", <<>>) >> ELSE <<>>)
        \o (IF o.loglevel # 0
            THEN << Flag("--loglevel", <<ToString(o.loglevel)>>) >> ELSE <<>>)
        \o (IF o.server_loglevel # 0
            THEN << Flag("--server-loglevel", <<ToString(o.server_loglevel)>>) >> ELSE <<>>)
        \o (IF Truthy(o.http_proxy)
            THEN << Flag("--http-proxy", Text(o.http_proxy)) >> ELSE <<>>)
        \o (IF Truthy(o.https_proxy)
            THEN << Flag("--https-proxy", Text(o.https_proxy)) >> ELSE <<>>)
        \o Flags("--no-proxy", o.no_proxy)
        \o Flags("--env", o.env)
        \o (IF ipaddr # "127.0.0.1" THEN << Flag("--forward-ports=false", <<>>) >> ELSE <<>>)

\* The list "command" as assembled for the first start of a new profile.
BuildCommand(profile, o, ipaddr) ==
    LET suffix == IF o.routing_suffix = None
                  THEN IF Truthy(ipaddr) /\ ipaddr # "127.0.0.1"
                       THEN <<"apps.", profile, ".", ipaddr, ".xip.io">>
                       ELSE <<>>
                  ELSE Text(o.routing_suffix)
    IN  << Flag("oc cluster up", <<>>) >>
        \o (IF ~Truthy(o.public_hostname) /\ Truthy(ipaddr)
            THEN << Flag("--public-hostname", Text(ipaddr)) >> ELSE <<>>)
        \o (IF suffix # <<>> THEN << Flag("--routing-suffix", suffix) >> ELSE <<>>)
        \o << Flag("--host-data-dir", ContainerProfileDir(profile) \o <<"/data">>),
              Flag("--host-config-dir", ContainerProfileDir(profile) \o <<"/config">>),
              Flag("--use-existing-config", <<>>) >>
        \o (IF Truthy(o.image) THEN << Flag("--image", Text(o.image)) >> ELSE <<>>)
        \o (IF Truthy(o.version) THEN << Flag("--version", Text(o.version)) >> ELSE <<>>)
        \o (IF o.logging THEN << Flag("--logging", <<>>) >> ELSE <<>>)
        \o (IF o.metrics THEN << Flag("--metrics", <<>>) >> ELSE <<>>)
        \o (IF o.loglevel # 0
            THEN << Flag("--loglevel", <<ToString(o.loglevel)>>) >> ELSE <<>>)
        \o (IF o.server_loglevel # 0
            THEN << Flag("--server-loglevel", <<ToString(o.server_loglevel)>>) >> ELSE <<>>)
        \o (IF Truthy(o.http_proxy)
            THEN << Flag("--http-proxy", Text(o.http_proxy)) >> ELSE <<>>)
        \o (IF Truthy(o.https_proxy)
            THEN << Flag("--https-proxy", Text(o.https_proxy)) >> ELSE <<>>)
        \o Flags("--no-proxy", o.no_proxy)
        \o Flags("--env", o.env)
        \o (IF ipaddr # "127.0.0.1" THEN << Flag("--forward-ports=false", <<>>) >> ELSE <<>>)

\* Mutant: an explicit --public-hostname is saved in front of the other
\* flags.
PersistedCommand_HostnameFirst(command, o) ==
    IF Truthy(o.public_hostname)
    THEN << Head(command), Flag("--public-hostname", Text(o.public_hostname)) >>
         \o Tail(command)
    ELSE command

\* The command line written to the profile's run file: the first start's
\* command with an explicit --public-hostname added at the end.
PersistedCommand(command, o) ==
    IF Truthy(o.public_hostname)
    THEN Append(command, Flag("--public-hostname", Text(o.public_hostname)))
    ELSE command

\* command += ' --env "%s"' % item, for the --env entries of this invocation.
WithEnv(command, env) == command \o Flags("--env", env)

\* fp.read().strip() on a run file: a flag is never whitespace, so only
\* blank padding flags at either end would go.
IsBlankFlag(f) == f[1] \in Whitespace /\ f[2] = <<>>

RECURSIVE StripCommand(_)
StripCommand(c) ==
    IF c = <<>> THEN c
    ELSE IF IsBlankFlag(Head(c)) THEN StripCommand(Tail(c))
    ELSE IF IsBlankFlag(c[Len(c)]) THEN StripCommand(SubSeq(c, 1, Len(c) - 1))
    ELSE c

\* --------------------------------------------------------- parameter types

\* The values of --claim and --size are texts of single characters.
RefChars == { "a", "b", "/" }
SizeChars == { "0", "1", "G", "M", "i", "g", "b", "\n" }
Texts(chars, n) == UNION { [1..k -> chars] : k \in 0..n }

\* Mutant: the value is split at the first separator only.
SplitOnce(t, sep) ==
    IF \A k \in 1..Len(t) : t[k] # sep THEN << t >>
    ELSE LET k == CHOOSE k \in 1..Len(t) :
                    t[k] = sep /\ \A j \in 1..(k - 1) : t[j] # sep
         IN  << SubSeq(t, 1, k - 1), SubSeq(t, k + 1, Len(t)) >>

\* str.split(sep): the parts between the separators.
RECURSIVE Split(_, _)
Split(t, sep) ==
    IF \A k \in 1..Len(t) : t[k] # sep THEN << t >>
    ELSE LET k == CHOOSE k \in 1..Len(t) :
                    t[k] = sep /\ \A j \in 1..(k - 1) : t[j] # sep
         IN  << SubSeq(t, 1, k - 1) >> \o Split(SubSeq(t, k + 1, Len(t)), sep)

\* What a click parameter type answers: the converted value, or self.fail.
Converted(v) == [ok |-> TRUE, value |-> v]
Rejected == [ok |-> FALSE, value |-> <<>>]

\* ClaimRef.convert: "project, name = value.split('/')" raises ValueError
\* unless there are exactly two parts.
ClaimRef_convert(value) ==
    LET parts == Split(value, "/")
    IN  IF Len(parts) = 2 THEN Converted(parts) ELSE Rejected

\* The regular expression ^\d+[GM]i$ under re.match: \d+ takes the
\* leading digits, and $ matches at the end of the text or just before a
\* newline that ends it.
RECURSIVE LeadingDigits(_)
LeadingDigits(t) ==
    IF t # <<>> /\ Head(t) \in { "0", "1" } THEN 1 + LeadingDigits(Tail(t)) ELSE 0

AtDollar(rest) == rest = <<>> \/ rest = << "\n" >>

MatchSize(t) ==
    LET k == LeadingDigits(t)
    IN  /\ k >= 1
        /\ Len(t) >= k + 2
        /\ t[k + 1] \in { "G", "M" }
        /\ t[k + 2] = "i"
        /\ AtDollar(SubSeq(t, k + 3, Len(t)))

\* VolumeSize.convert: the value itself when the expression matches.
VolumeSize_convert(value) ==
    IF ~MatchSize(value) THEN Rejected ELSE Converted(value)

\* ------------------------------------------------------------------- state

VARIABLES
    platform,   \* sys.platform of the host: fixed for a run of the model
    dirs,       \* profile_names(): the profiles that have a directory
    run,        \* profiles/<name>/run: profile -> persisted command line
    version,    \* profiles/<name>/version: profile -> version label
    passwd,     \* profiles/<name>/users.htpasswd: profile -> set of users
    marker,     \* <root>/active_profile: <<>> if absent, else <<its text>>
    instance,   \* the "origin" container: <<>> if none, else the command
                \* line that started it
    op,         \* the last invocation: command, argument, --env entries
    exit,       \* its exit status
    out,        \* the lines it echoed
    log         \* the external commands and file operations it performed

vars == <<platform, dirs, run, version, passwd, marker, instance,
          op, exit, out, log>>

Platforms == { "linux", "darwin", "win32" }

\* Users that the users sub-commands may name.
UserNames == { "developer", "alice" }

\* ------------------------------------------------------------ profile store

\* active_profile(ctx): the stripped text of the marker, None if unreadable.
active_profile(mk) ==
    IF mk = <<>> THEN None
    ELSE LET t == Strip(mk[1])
         IN  IF t = <<>> THEN "" ELSE t[1]

\* activate_profile(ctx, profile): the marker holds the profile's name.
activate_profile(profile) == << Text(profile) >>

\* cleanup_profile(ctx): the marker is unlinked; a missing marker is ignored.
cleanup_profile(mk) == <<>>

\* active_instance() is None.
NoInstance(inst) == inst = <<>>

\* f with key k bound to v / with key k removed.
Put(f, k, v) == (k :> v) @@ f
Del(f, k) == [ j \in DOMAIN f \ {k} |-> f[j] ]
NoFiles == [ j \in {} |-> <<>> ]

\* -------------------------------------------------------- a running command

\* The working record of an invocation: the stored state, the handler's
\* locals, and what it has echoed and done so far.
Begin ==
    [ dirs |-> dirs, run |-> run, version |-> version, passwd |-> passwd,
      marker |-> marker, instance |-> instance,
      command |-> <<>>, ipaddr |-> None, origin_version |-> "unknown",
      done |-> FALSE, exit |-> 0, out |-> <<>>, log |-> <<>> ]

\* ctx.exit(code) / sys.exit(code) / an uncaught exception (code 1).
Exit(w, code) == [w EXCEPT !.done = TRUE, !.exit = code]

\* click.echo(...)
Echo(w, msg, arg) == [w EXCEPT !.out = Append(@, [msg |-> msg, arg |-> arg])]

\* Record an external command (with its exit status) or a file operation.
Did(w, ev, cmd, rc, i) ==
    [w EXCEPT !.log = Append(@, [ev |-> ev, cmd |-> cmd, rc |-> rc, i |-> i])]

\* A step of a handler; i numbers the volume for the per-volume steps.
Step(k, i) == [k |-> k, i |-> i]
NoStep == Step("none", 0)

\* What the outside world answers during one invocation: the step whose
\* program fails and its exit status, whether a failed start or stop leaves
\* the container reachable, what "oc version" answers, and whether the
\* steps whose failure is only reported fail.
RC(x, s) == IF x.failAt = s THEN x.rc ELSE 0

\* "oc cluster up": an exit status of 0 means the container is reachable.
AfterStart(inst, cmd, rc, residue) ==
    IF rc = 0 \/ residue THEN cmd ELSE inst

\* "oc cluster down": an exit status of 0 means the container is gone.
AfterStop(inst, rc, residue) ==
    IF rc # 0 /\ residue THEN inst ELSE <<>>

\* ------------------------------------------------------------- cluster up

\* Mutant: a reachable instance without a marker is taken for the requested
\* profile's.
UpRunningCheck_AdoptsUnmarked(w, profile) ==
    IF NoInstance(w.instance) THEN w
    ELSE LET current == active_profile(w.marker)
         IN  IF current # None /\ profile # current
             THEN Exit(Echo(w, "Failed: Already running", current), 1)
             ELSE Exit(Echo(w, "Running", ""), 0)

\* Mutant: a reachable instance of the requested profile is started again.
UpRunningCheck_Restarts(w, profile) ==
    IF NoInstance(w.instance) \/ profile = active_profile(w.marker) THEN w
    ELSE Exit(Echo(w, "Failed: Already running", active_profile(w.marker)), 1)

\* Mutant: any reachable instance is taken for the requested profile's.
UpRunningCheck_IgnoresMarker(w, profile) ==
    IF NoInstance(w.instance) THEN w ELSE Exit(Echo(w, "Running", ""), 0)

\* The instance check that opens "up": with a container reachable, a
\* marker naming another profile is a conflict, the same profile a no-op.
UpRunningCheck(w, profile) ==
    IF NoInstance(w.instance) THEN w
    ELSE LET current == active_profile(w.marker)
         IN  IF profile # current
             THEN Exit(Echo(w, "Failed: Already running", current), 1)
             ELSE Exit(Echo(w, "Running", ""), 0)

\* os.mkdir(profile_dir); an OSError ends the command with status 1.
UpMkdirProfile(w, profile, x) ==
    IF RC(x, Step("mkdir_profile", 0)) # 0
    THEN Exit(Echo(w, "Failed: Cannot create host profile directories.", ""), 1)
    ELSE Did([w EXCEPT !.dirs = @ \cup {profile}], "mkdir_profile", <<>>, 0, 0)

\* os.mkdir of data, config and volumes under the profile directory.
UpMkdirSubdirs(w, x) ==
    IF RC(x, Step("mkdir_subdirs", 0)) # 0
    THEN Exit(Echo(w, "Failed: Cannot create host profile directories.", ""), 1)
    ELSE Did(w, "mkdir_subdirs", <<>>, 0, 0)

\* A helper program whose non-zero exit status ends the command with that
\* status (exact = TRUE) or with status 1 (exact = FALSE).
External(w, x, kind, i, msg, exact) ==
    LET rc == RC(x, Step(kind, i))
        w1 == Did(w, kind, <<>>, rc, i)
    IN  IF rc # 0 THEN Exit(Echo(w1, msg, ""), IF exact THEN rc ELSE 1) ELSE w1

\* A call that raises when it fails: the exception is not caught and the
\* interpreter ends with status 1.
Raising(w, x, kind) ==
    IF RC(x, Step(kind, 0)) # 0 THEN Exit(Did(w, kind, <<>>, 1, 0), 1)
    ELSE Did(w, kind, <<>>, 0, 0)

\* The address of the Docker bridge, by platform.
UpResolveIp(w, x) ==
    IF platform = "linux"
    THEN LET w1 == Raising(w, x, "ip_query")
         IN  IF w1.done THEN w1 ELSE [w1 EXCEPT !.ipaddr = "172.17.0.1"]
    ELSE IF platform = "darwin" THEN [w EXCEPT !.ipaddr = "127.0.0.1"]
    ELSE [w EXCEPT !.ipaddr = None]

\* Mutant: a failed first start removes the profile directory again.
UpFirstStart_RollsBack(w, profile, o, x) ==
    LET cmd == BuildCommand(profile, o, w.ipaddr)
        rc == RC(x, Step("first_start", 0))
        w1 == Did([w EXCEPT !.command = cmd,
                            !.instance = AfterStart(@, cmd, rc, x.residue)],
                  "start", cmd, rc, 0)
    IN  IF rc # 0 THEN Exit([w1 EXCEPT !.dirs = @ \ {profile}], rc) ELSE w1

\* The first "oc cluster up" of a new profile, with the command just built.
UpFirstStart(w, profile, o, x) ==
    LET cmd == BuildCommand(profile, o, w.ipaddr)
        rc == RC(x, Step("first_start", 0))
        w1 == Did([w EXCEPT !.command = cmd,
                            !.instance = AfterStart(@, cmd, rc, x.residue)],
                  "start", cmd, rc, 0)
    IN  IF rc # 0
        THEN Exit(Echo(w1, "Failed: The \"oc cluster up\" command failed.", ""), rc)
        ELSE w1

\* The command line is saved in the profile's run file.
UpWriteRun(w, profile, o) ==
    Did([w EXCEPT !.run = Put(@, profile, PersistedCommand(w.command, o))],
        "write_run", <<>>, 0, 0)

\* What "oc version" can answer.
VersionAnswers == { "ok", "ok15", "cpe_ok", "cpe_bad", "other" }
ReadVersion(answer) == IF answer = "ok15" THEN "v1.5.1" ELSE "v3.6.0"
IsV15(v) == v \in { "v1.5.0", "v1.5.1" }

\* The version label of the new profile.
UpVersion(w, profile, o, x) ==
    LET given == IF Truthy(o.version) THEN o.version ELSE "unknown"
        Write(v) == Did([w EXCEPT !.origin_version = v,
                                  !.version = Put(@, profile, v)],
                        "write_version", <<>>, 0, 0)
        Fail == Exit(Echo(w, "Failed: Unable to determine oc version.", ""), 1)
    IN  CASE x.ver \in { "ok", "ok15", "cpe_ok" } -> Write(ReadVersion(x.ver))
          [] x.ver = "cpe_bad" -> Fail
          [] OTHER -> IF given # "unknown" THEN Write(given) ELSE Fail

\* A helper program whose failure is only reported: the command goes on.
Reported(w, x, kind, i, msg) ==
    IF kind \in x.soft THEN Echo(Did(w, kind, <<>>, 1, i), msg, "")
    ELSE Did(w, kind, <<>>, 0, i)

\* Mutant: the volume is created without asking whether the cluster runs.
VolumesCreate_Unchecked(w, given, i, hasPath, x) ==
    LET profile == IF Truthy(given) THEN given ELSE active_profile(w.marker)
        inUse == x.failAt = Step("pv_get", i)
        w1 == Did(w, "pv_get", <<>>, IF inUse THEN 0 ELSE 1, i)
        w2 == IF hasPath THEN w1
              ELSE Reported(
                     Reported(w1, x, "pv_mkdir", i,
                              "Failed: Cannot create container volume directory."),
                     x, "pv_chmod", i,
                     "Failed: Cannot set permissions on volume directory.")
    IN  IF inUse
        THEN Exit(Echo(w1, "Failed: Persistent volume name already in use.", ""), 1)
        ELSE IF profile = None THEN Exit(w1, 1)
        ELSE External(w2, x, "pv_create", i,
                      "Failed: Persistent volume creation failed.", TRUE)

\* "volumes create" for volume number i, with the profile taken from the
\* "up" in progress (given) or else from the marker; hasPath tells whether
\* --path was supplied.
VolumesCreate(w, given, i, hasPath, x) ==
    IF NoInstance(w.instance) THEN Exit(Echo(w, "Stopped", ""), 1)
    ELSE
    LET profile == IF Truthy(given) THEN given ELSE active_profile(w.marker)
        inUse == x.failAt = Step("pv_get", i)
        w1 == Did(w, "pv_get", <<>>, IF inUse THEN 0 ELSE 1, i)
        w2 == IF hasPath THEN w1
              ELSE Reported(
                     Reported(w1, x, "pv_mkdir", i,
                              "Failed: Cannot create container volume directory."),
                     x, "pv_chmod", i,
                     "Failed: Cannot set permissions on volume directory.")
    IN  IF inUse
        THEN Exit(Echo(w1, "Failed: Persistent volume name already in use.", ""), 1)
        ELSE IF profile = None THEN Exit(w1, 1)
        ELSE External(w2, x, "pv_create", i,
                      "Failed: Persistent volume creation failed.", TRUE)

\* The initial volumes pv01 .. pvNN of a new profile, from number i on.
RECURSIVE UpVolumes(_, _, _, _, _)
UpVolumes(w, profile, i, count, x) ==
    IF w.done \/ i > count THEN w
    ELSE UpVolumes(VolumesCreate(w, profile, i, FALSE, x), profile, i + 1, count, x)

\* The password database of a new profile that uses htpasswd.
UpHtpasswd(w, profile, o, x) ==
    IF o.identity_provider # "htpasswd" THEN w
    ELSE LET w1 == Did([w EXCEPT !.passwd = Put(@, profile, {"developer"})],
                       "write_passwd", <<>>, 0, 0)
             w2 == External(w1, x, "htpasswd_cp", 0,
                            "Failed: Cannot copy htpasswd into container.", FALSE)
         IN  IF w2.done THEN w2
             ELSE External(w2, x, "htpasswd_enable", 0,
                           "Failed: Unable to enable password database.", TRUE)

\* Image labels are enabled unless proxies are set on Origin 1.5.
UpLabels(w, o, x) ==
    LET proxies == Truthy(o.http_proxy) \/ Truthy(o.https_proxy) \/ o.no_proxy # <<>>
    IN  IF proxies /\ IsV15(w.origin_version) THEN w
        ELSE External(w, x, "labels", 0, "Failed: Unable to enable image labels.", TRUE)

\* Mutant: the second start follows whatever the stop command returned.
UpIntermediateStop_Continues(w, x) ==
    LET rc == RC(x, Step("intermediate_stop", 0))
    IN  Did([w EXCEPT !.instance = AfterStop(@, rc, x.residue)], "stop", <<>>, rc, 0)

\* "oc cluster down" between the two starts of a new profile.
UpIntermediateStop(w, x) ==
    LET rc == RC(x, Step("intermediate_stop", 0))
        w1 == Did([w EXCEPT !.instance = AfterStop(@, rc, x.residue)],
                  "stop", <<>>, rc, 0)
    IN  IF rc # 0
        THEN Exit(Echo(w1, "Failed: The \"oc cluster down\" command failed.", ""), rc)
        ELSE w1

\* Mutant: the command line with this invocation's --env entries is saved
\* back to the run file.
UpStart_Resaves(w, profile, o, x) ==
    IF profile \notin DOMAIN w.run THEN Exit(Did(w, "read_run", <<>>, 1, 0), 1)
    ELSE
    LET cmd == WithEnv(StripCommand(w.run[profile]), o.env)
        rc == RC(x, Step("start", 0))
        w1 == Did([w EXCEPT !.command = cmd, !.run = Put(@, profile, cmd),
                            !.instance = AfterStart(@, cmd, rc, x.residue)],
                  "start", cmd, rc, 0)
    IN  IF rc # 0 THEN Exit(w1, rc) ELSE w1

\* Mutant: the start command is rebuilt from this invocation's options.
UpStart_Rebuilds(w, profile, o, x) ==
    LET cmd == BuildCommand(profile, o, "172.17.0.1")
        rc == RC(x, Step("start", 0))
        w1 == Did([w EXCEPT !.command = cmd,
                            !.instance = AfterStart(@, cmd, rc, x.residue)],
                  "start", cmd, rc, 0)
    IN  IF rc # 0 THEN Exit(w1, rc) ELSE w1

\* The start from the saved command line, with this invocation's --env
\* entries appended; a missing run file raises.
UpStart(w, profile, o, x) ==
    IF profile \notin DOMAIN w.run THEN Exit(Did(w, "read_run", <<>>, 1, 0), 1)
    ELSE
    LET cmd == WithEnv(StripCommand(w.run[profile]), o.env)
        rc == RC(x, Step("start", 0))
        w1 == Did([w EXCEPT !.command = cmd,
                            !.instance = AfterStart(@, cmd, rc, x.residue)],
                  "start", cmd, rc, 0)
    IN  IF rc # 0
        THEN Exit(Echo(w1, "Failed: The \"oc cluster up\" command failed.", ""), rc)
        ELSE w1

\* Mutant: the command ends normally without writing the marker.
UpActivate_Forgets(w, profile) == Exit(Echo(w, "Started", ""), 0)

\* The marker is written and the command ends normally.
UpActivate(w, profile) ==
    Exit(Echo(Did([w EXCEPT !.marker = activate_profile(profile)],
                  "write_marker", <<>>, 0, 0),
              "Started", ""), 0)

\* Mutant: the command line is saved before the first start.
UpPlan_PersistsFirst(create) ==
    << "running_check" >>
    \o (IF create
        THEN << "mkdir_profile", "mkdir_subdirs", "container_mkdir", "resolve_ip",
                "write_run", "first_start", "version", "cp_scripts",
                "session_context", "sudoer", "volumes", "htpasswd", "labels",
                "intermediate_stop" >>
        ELSE <<>>)
    \o << "start" >>
    \o (IF create THEN << "set_cluster", "set_credentials", "set_context" >> ELSE <<>>)
    \o << "use_context", "activate" >>

\* The steps of "up" in source order; the steps of profile creation are
\* taken when the profile has no directory.
UpPlan(create) ==
    << "running_check" >>
    \o (IF create
        THEN << "mkdir_profile", "mkdir_subdirs", "container_mkdir", "resolve_ip",
                "first_start", "write_run", "version", "cp_scripts",
                "session_context", "sudoer", "volumes", "htpasswd", "labels",
                "intermediate_stop" >>
        ELSE <<>>)
    \o << "start" >>
    \o (IF create THEN << "set_cluster", "set_credentials", "set_context" >> ELSE <<>>)
    \o << "use_context", "activate" >>

UpStep(w, k, profile, o, x) ==
    CASE k = "running_check" -> UpRunningCheck(w, profile)
      [] k = "mkdir_profile" -> UpMkdirProfile(w, profile, x)
      [] k = "mkdir_subdirs" -> UpMkdirSubdirs(w, x)
      [] k = "container_mkdir" ->
            External(w, x, k, 0, "Failed: Cannot create container profile directories.", TRUE)
      [] k = "resolve_ip" -> UpResolveIp(w, x)
      [] k = "first_start" -> UpFirstStart(w, profile, o, x)
      [] k = "write_run" -> UpWriteRun(w, profile, o)
      [] k = "version" -> UpVersion(w, profile, o, x)
      [] k = "cp_scripts" ->
            External(w, x, k, 0, "Failed: Cannot copy scripts into container.", FALSE)
      [] k = "session_context" -> Raising(w, x, k)
      [] k = "sudoer" ->
            External(w, x, k, 0, "Failed: Unable to assign sudoer role to developer.", TRUE)
      [] k = "volumes" -> UpVolumes(w, profile, 1, o.volumes, x)
      [] k = "htpasswd" -> UpHtpasswd(w, profile, o, x)
      [] k = "labels" -> UpLabels(w, o, x)
      [] k = "intermediate_stop" -> UpIntermediateStop(w, x)
      [] k = "start" -> UpStart(w, profile, o, x)
      [] k = "set_cluster" ->
            External(w, x, k, 0, "Failed: Unable to setup cluster in kubeconfig.", TRUE)
      [] k = "set_credentials" ->
            External(w, x, k, 0, "Failed: Unable to set token for context in kubeconfig.", TRUE)
      [] k = "set_context" ->
            External(w, x, k, 0, "Failed: Unable to setup context in kubeconfig.", TRUE)
      [] k = "use_context" ->
            External(w, x, k, 0, "Failed: Unable to set context for profile.", TRUE)
      [] OTHER -> UpActivate(w, profile)

\* command_cluster_up: the steps run in order until one of them exits.
RECURSIVE UpFrom(_, _, _, _, _)
UpFrom(w, plan, profile, o, x) ==
    IF w.done \/ plan = <<>> THEN w
    ELSE UpFrom(UpStep(w, Head(plan), profile, o, x), Tail(plan), profile, o, x)

command_cluster_up(w, profile, o, x) ==
    UpFrom(w, UpPlan(profile \notin w.dirs), profile, o, x)

\* ----------------------------------------------------------- cluster down

\* Mutant: the marker is removed only when the stop command succeeds.
DownStop_KeepsOnFailure(w, x) ==
    LET rc == RC(x, Step("stop", 0))
        w1 == Did([w EXCEPT !.instance = AfterStop(@, rc, x.residue)],
                  "stop", <<>>, rc, 0)
    IN  IF rc # 0 THEN w1
        ELSE Did([w1 EXCEPT !.marker = cleanup_profile(@)], "unlink_marker", <<>>, 0, 0)

\* "oc cluster down", then the marker is removed whatever the status.
DownStop(w, x) ==
    LET rc == RC(x, Step("stop", 0))
        w1 == Did([w EXCEPT !.instance = AfterStop(@, rc, x.residue)],
                  "stop", <<>>, rc, 0)
    IN  Did([w1 EXCEPT !.marker = cleanup_profile(@)], "unlink_marker", <<>>, 0, 0)

\* Mutant: a failed stop command always gives exit status 1.
DownResult_ExitsOne(w, rc) ==
    IF rc = 0 THEN Exit(Echo(w, "Stopped", ""), 0)
    ELSE Exit(Echo(w, "Failed: The \"oc cluster down\" command failed.", ""), 1)

\* The end of "down": the status of the stop command is the exit status.
DownResult(w, rc) ==
    IF rc = 0 THEN Exit(Echo(w, "Stopped", ""), 0)
    ELSE Exit(Echo(w, "Failed: The \"oc cluster down\" command failed.", ""), rc)

command_cluster_down(w, x) ==
    IF NoInstance(w.instance) THEN Exit(Echo(w, "Stopped", ""), 1)
    ELSE DownResult(DownStop(Echo(w, "Stopping", ""), x), RC(x, Step("stop", 0)))

\* -------------------------------------------------------- cluster destroy

\* Mutant: the directory is kept when a cleanup step before it failed.
RemoveProfile_UnlessWarned(w, profile) ==
    IF \E j \in 1..Len(w.log) : w.log[j].rc # 0 THEN w
    ELSE Did([w EXCEPT !.dirs = @ \ {profile},
                       !.run = Del(@, profile),
                       !.version = Del(@, profile),
                       !.passwd = Del(@, profile)],
             "rmtree", <<>>, 0, 0)

\* shutil.rmtree(directory): the directory and the files in it are gone.
RemoveProfile(w, profile) ==
    Did([w EXCEPT !.dirs = @ \ {profile},
                  !.run = Del(@, profile),
                  !.version = Del(@, profile),
                  !.passwd = Del(@, profile)],
        "rmtree", <<>>, 0, 0)

\* The removal of the images labelled with the profile: failures are
\* reported as warnings.
DestroyImages(w, x) ==
    IF "images_query" \in x.soft
    THEN Echo(Did(w, "images_query", <<>>, 1, 0),
              "Warning: Unable to query images for profile.", "")
    ELSE Reported(Did(w, "images_query", <<>>, 0, 0), x, "rmi", 0,
                  "Warning: Unable to delete image")

\* Mutant: the marker is removed only when the stop command succeeds.
DestroyStop_KeepsOnFailure(w, x) ==
    LET rc == RC(x, Step("stop", 0))
        w1 == Did([w EXCEPT !.instance = AfterStop(@, rc, x.residue)],
                  "stop", <<>>, rc, 0)
    IN  IF rc # 0 THEN w1
        ELSE Did([w1 EXCEPT !.marker = cleanup_profile(@)], "unlink_marker", <<>>, 0, 0)

\* Mutant: the cluster is stopped and the marker is left in place.
DestroyStop_LeavesMarker(w, x) ==
    LET rc == RC(x, Step("stop", 0))
    IN  Did([w EXCEPT !.instance = AfterStop(@, rc, x.residue)], "stop", <<>>, rc, 0)

\* The active profile is stopped first: "oc cluster down", then the marker
\* is removed whatever the status.
DestroyStop(w, x) ==
    LET rc == RC(x, Step("stop", 0))
        w1 == Did([w EXCEPT !.instance = AfterStop(@, rc, x.residue)],
                  "stop", <<>>, rc, 0)
    IN  Did([w1 EXCEPT !.marker = cleanup_profile(@)], "unlink_marker", <<>>, 0, 0)

\* Mutant: a failed stop command does not end the command.
command_cluster_destroy_Proceeds(w, profile, confirmed, x) ==
    IF profile \notin w.dirs THEN Exit(Echo(w, "Invalid", profile), 1)
    ELSE IF ~confirmed THEN Exit(Echo(w, "Aborted!", ""), 1)
    ELSE
    LET active == profile = active_profile(w.marker)
        w1 == IF active THEN DestroyStop(Echo(w, "Stopping", ""), x) ELSE w
        w2 == DestroyImages(Echo(w1, "Cleaning", ""), x)
        w3 == Reported(w2, x, "container_rm", 0,
                       "Failed: Cannot delete container profile directory.")
    IN  Exit(RemoveProfile(Echo(w3, "Removing", profile), profile), 0)

\* Mutant: the profile is destroyed without waiting for the confirmation.
command_cluster_destroy_Unasked(w, profile, confirmed, x) ==
    IF profile \notin w.dirs THEN Exit(Echo(w, "Invalid", profile), 1)
    ELSE
    LET active == profile = active_profile(w.marker)
        rc == RC(x, Step("stop", 0))
        w1 == IF active THEN DestroyStop(Echo(w, "Stopping", ""), x) ELSE w
        w2 == DestroyImages(Echo(w1, "Cleaning", ""), x)
        w3 == Reported(w2, x, "container_rm", 0,
                       "Failed: Cannot delete container profile directory.")
    IN  IF active /\ rc # 0
        THEN Exit(Echo(w1, "Failed: The \"oc cluster down\" command failed.", ""), rc)
        ELSE Exit(RemoveProfile(Echo(w3, "Removing", profile), profile), 0)

command_cluster_destroy(w, profile, confirmed, x) ==
    IF profile \notin w.dirs THEN Exit(Echo(w, "Invalid", profile), 1)
    ELSE IF ~confirmed THEN Exit(Echo(w, "Aborted!", ""), 1)
    ELSE
    LET active == profile = active_profile(w.marker)
        rc == RC(x, Step("stop", 0))
        w1 == IF active THEN DestroyStop(Echo(w, "Stopping", ""), x) ELSE w
        w2 == DestroyImages(Echo(w1, "Cleaning", ""), x)
        w3 == Reported(w2, x, "container_rm", 0,
                       "Failed: Cannot delete container profile directory.")
    IN  IF active /\ rc # 0
        THEN Exit(Echo(w1, "Failed: The \"oc cluster down\" command failed.", ""), rc)
        ELSE Exit(RemoveProfile(Echo(w3, "Removing", profile), profile), 0)

\* ------------------------------------------------ cluster list, status, env

\* The line of "cluster list" for one profile.
ListLabel(w, profile) ==
    [ msg |-> IF profile \in DOMAIN w.version
              THEN profile \o "/" \o w.version[profile] ELSE profile,
      arg |-> IF profile = active_profile(w.marker) THEN "(active)" ELSE "" ]

command_cluster_list(w) ==
    LET listed == SelectSeq(AllProfileNames, LAMBDA p : p \in w.dirs)
    IN  Exit([w EXCEPT !.out = [ i \in 1..Len(listed) |-> ListLabel(w, listed[i]) ]], 0)

\* Mutant: a marker found while nothing is running is removed.
command_cluster_status_Cleans(w) ==
    IF NoInstance(w.instance)
    THEN Exit(Echo(Did([w EXCEPT !.marker = cleanup_profile(@)],
                       "unlink_marker", <<>>, 0, 0),
                   "Status: Stopped", ""), 1)
    ELSE LET profile == active_profile(w.marker)
         IN  IF profile = None
             THEN Exit(Echo(w, "Failed: Cannot find active profile.", ""), 1)
             ELSE Exit(Echo(w, "Status: Running", profile), 0)

command_cluster_status(w) ==
    IF NoInstance(w.instance) THEN Exit(Echo(w, "Status: Stopped", ""), 1)
    ELSE LET profile == active_profile(w.marker)
         IN  IF profile = None
             THEN Exit(Echo(w, "Failed: Cannot find active profile.", ""), 1)
             ELSE Exit(Echo(w, "Status: Running", profile), 0)

command_cluster_env(w, profile) ==
    Exit(Echo(w, "client env",
              IF profile \in DOMAIN w.version THEN w.version[profile] ELSE "unknown"), 0)

\* ------------------------------------------------------------ cluster users

\* What opens every users sub-command: a reachable instance, a marker, and
\* the password file of the profile it names.
UsersOpen(w) ==
    IF NoInstance(w.instance) THEN Exit(Echo(w, "Stopped", ""), 1)
    ELSE IF active_profile(w.marker) = None THEN Exit(w, 1)
    ELSE IF active_profile(w.marker) \notin DOMAIN w.passwd
    THEN Exit(Echo(w, "Failed: The password file does not exist.", ""), 1)
    ELSE w

\* db.save() and the copy of the password file into the container.
UsersSave(w, users, x) ==
    External(Did([w EXCEPT !.passwd = Put(@, active_profile(w.marker), users)],
                 "write_passwd", <<>>, 0, 0),
             x, "htpasswd_cp", 0, "Failed: Cannot copy htpasswd into container.", FALSE)

command_cluster_users_passwd(w, user, x) ==
    LET w1 == UsersOpen(w)
    IN  IF w1.done THEN w1
        ELSE LET db == w.passwd[active_profile(w.marker)]
             IN  IF user \notin db
                 THEN Exit(Echo(w, "Failed: No such user exists.", ""), 1)
                 ELSE LET w2 == UsersSave(w, db \cup {user}, x)
                      IN  IF w2.done THEN w2 ELSE Exit(w2, 0)

\* Mutant: a user that already exists is given the new password.
command_cluster_users_add_Overwrites(w, user, admin, x) ==
    LET w1 == UsersOpen(w)
    IN  IF w1.done THEN w1
        ELSE LET db == w.passwd[active_profile(w.marker)]
                 w2 == UsersSave(w, db \cup {user}, x)
                 w3 == IF admin /\ ~w2.done
                       THEN External(w2, x, "make_admin", 0,
                              "Failed: Unable to make user a system admin.", TRUE)
                       ELSE w2
             IN  IF w3.done THEN w3 ELSE Exit(w3, 0)

command_cluster_users_add(w, user, admin, x) ==
    LET w1 == UsersOpen(w)
    IN  IF w1.done THEN w1
        ELSE LET db == w.passwd[active_profile(w.marker)]
             IN  IF user \in db
                 THEN Exit(Echo(w, "Failed: User already exists.", ""), 1)
                 ELSE LET w2 == UsersSave(w, db \cup {user}, x)
                          w3 == IF admin /\ ~w2.done
                                THEN External(w2, x, "make_admin", 0,
                                       "Failed: Unable to make user a system admin.", TRUE)
                                ELSE w2
                      IN  IF w3.done THEN w3 ELSE Exit(w3, 0)

\* Mutant: any account may be removed.
command_cluster_users_remove_Any(w, user, confirmed, x) ==
    LET w1 == UsersOpen(w)
    IN  IF w1.done THEN w1
        ELSE IF ~confirmed THEN Exit(Echo(w, "Aborted!", ""), 1)
        ELSE LET db == w.passwd[active_profile(w.marker)]
             IN  IF user \notin db
                 THEN Exit(Echo(w, "Failed: User does not exist.", ""), 1)
                 ELSE LET w2 == UsersSave(w, db \ {user}, x)
                      IN  IF w2.done THEN w2 ELSE Exit(w2, 0)

command_cluster_users_remove(w, user, confirmed, x) ==
    LET w1 == UsersOpen(w)
    IN  IF w1.done THEN w1
        ELSE IF user = "developer"
        THEN Exit(Echo(w, "Failed: Cannot remove developer account.", ""), 1)
        ELSE IF ~confirmed THEN Exit(Echo(w, "Aborted!", ""), 1)
        ELSE LET db == w.passwd[active_profile(w.marker)]
             IN  IF user \notin db
                 THEN Exit(Echo(w, "Failed: User does not exist.", ""), 1)
                 ELSE LET w2 == UsersSave(w, db \ {user}, x)
                      IN  IF w2.done THEN w2 ELSE Exit(w2, 0)

\* "volumes create" as a command of its own.
command_cluster_volumes_create(w, i, hasPath, x) ==
    LET w1 == VolumesCreate(w, None, i, hasPath, x)
    IN  IF w1.done THEN w1 ELSE Exit(w1, 0)

\* --------------------------------------------------- the outside world

Fate(failAt, rc, residue, ver, soft) ==
    [ failAt |-> failAt, rc |-> rc, residue |-> residue, ver |-> ver, soft |-> soft ]

\* Every program succeeds.
Calm == Fate(NoStep, 1, FALSE, "ok", {})

\* The program of step (k, i) fails: with any status for a program whose
\* status the handler passes on, and leaving the container either way for
\* a start or a stop.
Failures(k, i) ==
    { Fate(Step(k, i), rc, residue, "ok", {}) :
        rc \in (IF k \in { "mkdir_profile", "mkdir_subdirs", "ip_query", "cp_scripts",
                           "session_context", "htpasswd_cp", "pv_get" }
                THEN {1} ELSE 1..MaxRC),
        residue \in (IF k \in { "first_start", "intermediate_stop", "start", "stop" }
                     THEN BOOLEAN ELSE {FALSE}) }

VolumeFailures(count) ==
    UNION { Failures("pv_get", i) \cup Failures("pv_create", i) : i \in 1..count }

\* What can happen during "up": on the creation path any one program may
\* fail; "oc version" may answer anything and the reported-only volume
\* steps may fail when the rest succeeds or the next fatal step fails.
UpFates(create, o, answers) ==
    Failures("start", 0) \cup Failures("use_context", 0) \cup {Calm}
    \cup
    (IF ~create THEN {}
     ELSE LET fatal == UNION { Failures(k, 0) :
                         k \in { "mkdir_profile", "mkdir_subdirs", "container_mkdir",
                                 "first_start", "cp_scripts", "session_context",
                                 "sudoer", "labels", "intermediate_stop",
                                 "set_cluster", "set_credentials", "set_context" }
                              \cup (IF platform = "linux" THEN {"ip_query"} ELSE {})
                              \cup (IF o.identity_provider = "htpasswd"
                                    THEN {"htpasswd_cp", "htpasswd_enable"} ELSE {}) }
              afterVersion == {Calm} \cup Failures("labels", 0)
              afterVolumes == {Calm} \cup VolumeFailures(o.volumes)
          IN  fatal \cup VolumeFailures(o.volumes)
              \cup { [x EXCEPT !.ver = v] : x \in afterVersion, v \in answers }
              \cup (IF o.volumes = 0 THEN {}
                    ELSE { [x EXCEPT !.soft = f] :
                             x \in afterVolumes, f \in SUBSET { "pv_mkdir", "pv_chmod" } }))

StopFates == Failures("stop", 0) \cup {Calm}

DestroyFates(softs) ==
    { [x EXCEPT !.soft = f] : x \in StopFates, f \in softs }

UsersFates == Failures("htpasswd_cp", 0) \cup Failures("make_admin", 0) \cup {Calm}

VolumesFates(i) ==
    { [x EXCEPT !.soft = f] :
        x \in Failures("pv_get", i) \cup Failures("pv_create", i) \cup {Calm},
        f \in SUBSET { "pv_mkdir", "pv_chmod" } }

\* ------------------------------------------------------------------ inputs

\* What the users and the outside world may do in a specification: the
\* profile names and option combinations typed, the host platforms, the
\* answers of "oc version", and the cleanup steps of destroy that fail.
CleanupSteps == { "images_query", "rmi", "container_rm" }

\* Two profiles on a Linux host, started with or without options.
Lifecycle ==
    [ profiles |-> ProfileNames,
      options |-> { o \in UpOptions : o.identity_provider = "none" /\ o.no_proxy = <<>> },
      platforms |-> { "linux" },
      answers |-> { "ok", "cpe_bad", "other" },
      softs |-> { {}, CleanupSteps } ]

\* One profile with every option combination, platform and answer.
Provisioning ==
    [ profiles |-> { AllProfileNames[1] },
      options |-> UpOptions,
      platforms |-> Platforms,
      answers |-> VersionAnswers,
      softs |-> SUBSET CleanupSteps ]

\* ----------------------------------------------------------------- actions

InitIn(scope) ==
    /\ platform \in scope.platforms
    /\ dirs = {}
    /\ run = NoFiles
    /\ version = NoFiles
    /\ passwd = NoFiles
    /\ marker = <<>>
    /\ instance = <<>>
    /\ op = [cmd |-> "none", arg |-> None, env |-> <<>>]
    /\ exit = 0
    /\ out = <<>>
    /\ log = <<>>

\* An invocation ends: its working record becomes the stored state.
Commit(w, cmd, arg, env) ==
    /\ dirs' = w.dirs
    /\ run' = w.run
    /\ version' = w.version
    /\ passwd' = w.passwd
    /\ marker' = w.marker
    /\ instance' = w.instance
    /\ op' = [cmd |-> cmd, arg |-> arg, env |-> env]
    /\ exit' = w.exit
    /\ out' = w.out
    /\ log' = w.log
    /\ UNCHANGED platform

Up(scope) ==
    \E profile \in scope.profiles, o \in scope.options :
        \E x \in (IF NoInstance(instance)
                  THEN UpFates(profile \notin dirs, o, scope.answers) ELSE {Calm}) :
            Commit(command_cluster_up(Begin, profile, o, x), "up", profile, o.env)

Down ==
    \E x \in (IF NoInstance(instance) THEN {Calm} ELSE StopFates) :
        Commit(command_cluster_down(Begin, x), "down", None, <<>>)

Destroy(scope) ==
    \E profile \in scope.profiles, confirmed \in BOOLEAN :
        \E x \in (IF profile \in dirs /\ confirmed
                  THEN DestroyFates(scope.softs) ELSE {Calm}) :
            Commit(command_cluster_destroy(Begin, profile, confirmed, x),
                   IF confirmed THEN "destroy" ELSE "destroy declined", profile, <<>>)

List == Commit(command_cluster_list(Begin), "list", None, <<>>)

Status == Commit(command_cluster_status(Begin), "status", None, <<>>)

Env(scope) ==
    \E profile \in scope.profiles :
        Commit(command_cluster_env(Begin, profile), "env", profile, <<>>)

VolumesCreateCmd ==
    \E i \in 1..MaxVolumes, hasPath \in BOOLEAN :
        \E x \in (IF NoInstance(instance) THEN {Calm} ELSE VolumesFates(i)) :
            Commit(command_cluster_volumes_create(Begin, i, hasPath, x),
                   "volumes create", ToString(i), <<>>)

UsersPasswd ==
    \E user \in UserNames, x \in UsersFates :
        Commit(command_cluster_users_passwd(Begin, user, x), "users passwd", user, <<>>)

UsersAdd ==
    \E user \in UserNames, admin \in BOOLEAN, x \in UsersFates :
        Commit(command_cluster_users_add(Begin, user, admin, x), "users add", user, <<>>)

UsersRemove ==
    \E user \in UserNames, confirmed \in BOOLEAN, x \in UsersFates :
        Commit(command_cluster_users_remove(Begin, user, confirmed, x),
               "users remove", user, <<>>)

\* The container stops without the tool (docker stop, a host restart).
StoppedOutside ==
    /\ ~NoInstance(instance)
    /\ instance' = <<>>
    /\ op' = [cmd |-> "stopped outside", arg |-> None, env |-> <<>>]
    /\ exit' = 0
    /\ out' = <<>>
    /\ log' = <<>>
    /\ UNCHANGED <<platform, dirs, run, version, passwd, marker>>

\* The lifecycle of two profiles.
Init == InitIn(Lifecycle)

Next ==
    \/ Up(Lifecycle)
    \/ Down
    \/ Destroy(Lifecycle)
    \/ List
    \/ Status
    \/ StoppedOutside

Spec == Init /\ [][Next]_vars

\* Every command on one profile.
InitProvisioning == InitIn(Provisioning)

NextProvisioning ==
    \/ Up(Provisioning)
    \/ Down
    \/ Destroy(Provisioning)
    \/ List
    \/ Status
    \/ Env(Provisioning)
    \/ VolumesCreateCmd
    \/ UsersPasswd
    \/ UsersAdd
    \/ UsersRemove
    \/ StoppedOutside

SpecProvisioning == InitProvisioning /\ [][NextProvisioning]_vars

\* The command line of a first start, for every way to give the options.
IpAddrs == { None, "127.0.0.1", "172.17.0.1", "10.0.0.5" }

BuildOptions ==
    UpOptions \cup { [o EXCEPT !.routing_suffix = r] :
                         o \in UpOptions, r \in { "", "apps.example.com" } }

\* Nothing is stored while a command line is built or a value converted.
Idle == UNCHANGED <<platform, dirs, run, version, passwd, marker, instance>>

\* An empty root directory and something typed that awaits processing.
InitTyped(typed) ==
    /\ platform = "linux"
    /\ dirs = {}
    /\ run = NoFiles
    /\ version = NoFiles
    /\ passwd = NoFiles
    /\ marker = <<>>
    /\ instance = <<>>
    /\ op \in typed
    /\ exit = 0
    /\ out = <<>>
    /\ log = <<>>

Build ==
    /\ op.cmd = "build typed"
    /\ op' = [op EXCEPT !.cmd = "build"]
    /\ log' = << [ev |-> "build", cmd |-> BuildCommand(op.arg, op.options, op.ipaddr),
                  rc |-> 0, i |-> 0] >>
    /\ exit' = 0
    /\ out' = <<>>
    /\ Idle

InitBuild ==
    InitTyped({ [cmd |-> "build typed", arg |-> profile, env |-> o.env,
                 options |-> o, ipaddr |-> ipaddr] :
                  profile \in ProfileNames, o \in BuildOptions, ipaddr \in IpAddrs })

NextBuild == Build

SpecBuild == InitBuild /\ [][NextBuild]_vars

\* The parameter types of "volumes create", on every text typed.
Convert(cmd, r) ==
    /\ op' = [op EXCEPT !.cmd = cmd]
    /\ out' = << r >>
    /\ exit' = IF r.ok THEN 0 ELSE 2
    /\ log' = <<>>
    /\ Idle

ConvertClaimRef ==
    /\ op.cmd = "claim-ref typed"
    /\ Convert("claim-ref", ClaimRef_convert(op.arg))

ConvertVolumeSize ==
    /\ op.cmd = "volume-size typed"
    /\ Convert("volume-size", VolumeSize_convert(op.arg))

InitParsers ==
    InitTyped({ [cmd |-> "claim-ref typed", arg |-> value, env |-> <<>>] :
                  value \in Texts(RefChars, MaxRef) }
              \cup
              { [cmd |-> "volume-size typed", arg |-> value, env |-> <<>>] :
                  value \in Texts(SizeChars, MaxSize) })

NextParsers ==
    \/ ConvertClaimRef
    \/ ConvertVolumeSize

SpecParsers == InitParsers /\ [][NextParsers]_vars

\* ------------------------------------------------------------------ claims

\* The marker names profile n.
Names(mk, n) == mk # <<>> /\ active_profile(mk) = n

HasEv(l, ev) == \E i \in 1..Len(l) : l[i].ev = ev

\* The cluster start commands an invocation executed, in order.
Starts(l) == SelectSeq(l, LAMBDA e : e.ev = "start")

\* The --env flags for a list of entries, in the order given.
EnvFlags(env) == [ i \in 1..Len(env) |-> <<"--env", <<env[i]>>>> ]

\* C1: up(n) while an instance is reachable and the marker names another
\* profile m exits with status 1, reports m, and changes nothing: no
\* directory, no run file, no command executed, the marker still names m.
C1_ConflictChangesNothing ==
    [][ (op'.cmd = "up" /\ ~NoInstance(instance) /\ marker # <<>>
            /\ active_profile(marker) # op'.arg)
        => /\ exit' = 1
           /\ out' = << [msg |-> "Failed: Already running",
                         arg |-> active_profile(marker)] >>
           /\ log' = <<>>
           /\ UNCHANGED <<dirs, run, version, passwd, marker, instance>> ]_vars

C1_Witness ==
    /\ op.cmd = "up" /\ exit = 1
    /\ ~NoInstance(instance)
    /\ marker # <<>> /\ active_profile(marker) # op.arg
    /\ out = << [msg |-> "Failed: Already running", arg |-> active_profile(marker)] >>
    /\ op.arg \notin dirs

\* C2: up(n) twice in a row: the first call, when it succeeds on an absent
\* profile, leaves n with a directory, a persisted run_command, a reachable
\* instance and the marker naming n; the second call exits 0 without
\* executing anything and leaves run_command and the marker as they were.
C2_UpTwice ==
    [][ op'.cmd = "up"
        => /\ (op'.arg \notin dirs /\ exit' = 0)
              => /\ op'.arg \in dirs' /\ op'.arg \in DOMAIN run'
                 /\ ~NoInstance(instance') /\ Names(marker', op'.arg)
           /\ (op.cmd = "up" /\ op.arg = op'.arg /\ exit = 0)
              => /\ exit' = 0 /\ log' = <<>>
                 /\ run' = run /\ marker' = marker /\ Names(marker', op'.arg)
                 /\ UNCHANGED <<dirs, instance>> ]_vars

C2_Witness ==
    /\ op.cmd = "up" /\ exit = 0 /\ log = <<>>
    /\ out = << [msg |-> "Running", arg |-> ""] >>
    /\ Names(marker, op.arg) /\ op.arg \in DOMAIN run

\* C3: up(n) on an existing profile with nothing running executes exactly
\* the persisted run_command followed by this call's --env entries in
\* input order, whatever the other options of the call are.
C3_ReplaysPersisted ==
    [][ (op'.cmd = "up" /\ NoInstance(instance) /\ op'.arg \in dirs
            /\ op'.arg \in DOMAIN run)
        => /\ Len(Starts(log')) = 1
           /\ Starts(log')[1].cmd = run[op'.arg] \o EnvFlags(op'.env)
           /\ run' = run ]_vars

C3_Witness ==
    /\ op.cmd = "up" /\ exit = 0 /\ ~HasEv(log, "mkdir_profile")
    /\ Len(op.env) >= 2 /\ op.env[1] # op.env[2]
    /\ op.arg \in DOMAIN run
    /\ \E i \in 1..Len(run[op.arg]) : run[op.arg][i][1] = "--image"
    /\ \E i \in 1..Len(run[op.arg]) - 1 :
          /\ run[op.arg][i] = <<"--env", <<op.env[2]>>>>
          /\ run[op.arg][i + 1] = <<"--env", <<op.env[1]>>>>
    /\ Len(Starts(log)) = 1
    /\ Starts(log)[1].cmd = run[op.arg] \o EnvFlags(op.env)
    /\ instance = Starts(log)[1].cmd

\* C4: between invocations the marker exists exactly when an instance is
\* reachable.
C4_MarkerIffReachable == (marker # <<>>) <=> ~NoInstance(instance)

\* C5: a confirmed destroy(n) of the active profile leaves the marker
\* absent, whatever the exit status of the stop command.
C5_DestroyClearsMarker ==
    [][ (op'.cmd = "destroy" /\ op'.arg \in dirs /\ Names(marker, op'.arg))
        => /\ marker' = <<>>
           /\ HasEv(log', "stop") ]_vars

C5_Witness ==
    /\ op.cmd = "destroy" /\ exit # 0 /\ marker = <<>>
    /\ \E i \in 1..Len(log) : log[i].ev = "stop" /\ log[i].rc = exit
    /\ HasEv(log, "unlink_marker")

\* C6: down() with a reachable instance runs the stop command, then
\* removes the marker whatever its exit status, and exits with that status.
C6_DownPropagatesStatus ==
    [][ (op'.cmd = "down" /\ ~NoInstance(instance))
        => /\ Len(log') = 2
           /\ log'[1].ev = "stop" /\ log'[2].ev = "unlink_marker"
           /\ marker' = <<>>
           /\ exit' = log'[1].rc ]_vars

C6_Witness ==
    /\ op.cmd = "down" /\ exit > 1 /\ marker = <<>>
    /\ Len(log) = 2 /\ log[1].ev = "stop" /\ log[1].rc = exit
    /\ ~NoInstance(instance)

\* C7: up(n) that exits with status 0 leaves the marker naming n; up(n)
\* that exits with another status has not written the marker.
C7_MarkerOnSuccessOnly ==
    [][ op'.cmd = "up"
        => /\ exit' = 0 => Names(marker', op'.arg)
           /\ exit' # 0 => (marker' = marker /\ ~HasEv(log', "write_marker")) ]_vars

C7_Witness ==
    /\ op.cmd = "up" /\ exit = 0
    /\ HasEv(log, "mkdir_profile") /\ HasEv(log, "write_marker")
    /\ Names(marker, op.arg)

Mutations(l) ==
    LET kept == SelectSeq(l, LAMBDA e :
                    e.ev \in { "mkdir_profile", "start", "write_run", "write_marker" })
    IN  [ i \in 1..Len(kept) |-> kept[i].ev ]

IsPrefix(s, t) == Len(s) <= Len(t) /\ s = SubSeq(t, 1, Len(s))

\* C9 as stated: an up that creates a profile creates the directory, then
\* persists run_command, then starts the cluster, then writes the marker.
C9_PersistBeforeLaunch ==
    (op.cmd = "up" /\ HasEv(log, "mkdir_profile"))
    => \/ IsPrefix(Mutations(log), << "mkdir_profile", "write_run", "start", "write_marker" >>)
       \/ IsPrefix(Mutations(log),
                   << "mkdir_profile", "write_run", "start", "start", "write_marker" >>)

\* C9 as amended: an up that creates a profile creates the directory, then
\* starts the cluster, then persists run_command, then starts the cluster
\* again, then writes the marker; run_command is persisted when the second
\* start is invoked, not when the first is.
C9_LaunchBeforePersist ==
    (op.cmd = "up" /\ HasEv(log, "mkdir_profile"))
    => IsPrefix(Mutations(log),
                << "mkdir_profile", "start", "write_run", "start", "write_marker" >>)

C9_Witness ==
    /\ op.cmd = "up" /\ exit = 0
    /\ Mutations(log) = << "mkdir_profile", "start", "write_run", "start", "write_marker" >>

\* C10: when up(n) creates n and the first cluster start exits non-zero,
\* up exits with that status, leaves the marker alone and leaves the
\* directory it created in place.
C10_FailedFirstStart ==
    [][ (op'.cmd = "up" /\ op'.arg \notin dirs /\ Len(Starts(log')) = 1
            /\ Starts(log')[1].rc # 0)
        => /\ exit' = Starts(log')[1].rc
           /\ marker' = marker /\ ~HasEv(log', "write_marker")
           /\ dirs' = dirs \cup {op'.arg}
           /\ HasEv(log', "mkdir_profile") ]_vars

C10_Witness ==
    /\ op.cmd = "up" /\ exit > 1
    /\ HasEv(log, "mkdir_profile")
    /\ Len(Starts(log)) = 1 /\ Starts(log)[1].rc = exit
    /\ log[Len(log)].ev = "start"
    /\ op.arg \in dirs /\ marker = <<>>

\* The steps that follow the first start of a new profile and configure it.
PostProvisioning ==
    { "cp_scripts", "sudoer", "pv_mkdir", "pv_chmod", "pv_create",
      "htpasswd_cp", "htpasswd_enable", "labels", "stop" }

\* C11: in an up that creates a profile, a post-provisioning step that
\* fails is the last thing the invocation does: up exits non-zero there and
\* the marker is not written.
C11_PostProvisioningFatal ==
    (op.cmd = "up" /\ HasEv(log, "mkdir_profile"))
    => \A i \in 1..Len(log) :
          (log[i].ev \in PostProvisioning /\ log[i].rc # 0)
          => (i = Len(log) /\ exit # 0 /\ ~HasEv(log, "write_marker"))

\* C12: an up that creates a profile and has persisted run_command always
\* goes on to record a version label, whatever the version query answers.
C12_VersionNeverAborts ==
    (op.cmd = "up" /\ HasEv(log, "write_run"))
    => (HasEv(log, "write_version") /\ op.arg \in DOMAIN version)

\* C13: when down, status or up finds no reachable instance, a marker left
\* over from an earlier run is deleted: absent after down and status, absent
\* or freshly written after up.
C13_StaleMarkerDeleted ==
    [][ (NoInstance(instance) /\ marker # <<>>)
        => /\ op'.cmd \in { "down", "status" } => marker' = <<>>
           /\ op'.cmd = "up" => (marker' = <<>> \/ HasEv(log', "write_marker")) ]_vars

\* C14: the marker, when present, names a profile whose directory exists.
C14_MarkerNamesExisting == marker # <<>> => active_profile(marker) \in dirs

C14_Witness ==
    /\ op.cmd = "destroy" /\ exit = 0 /\ HasEv(log, "rmtree")
    /\ op.arg \notin dirs
    /\ marker # <<>> /\ active_profile(marker) \in dirs
    /\ ~NoInstance(instance)

HasFlag(c, name) == \E i \in 1..Len(c) : c[i][1] = name

C16_OneInstance ==
    [][ op'.cmd = "up"
        => /\ ~NoInstance(instance) => Starts(log') = <<>>
           /\ \A i, j \in 1..Len(log') :
                (i < j /\ log'[i].ev = "start" /\ log'[j].ev = "start")
                => \E k \in (i + 1)..(j - 1) :
                      log'[k].ev = "stop" /\ log'[k].rc = 0 ]_vars

C16_Witness ==
    /\ op.cmd = "up" /\ exit = 0 /\ Len(Starts(log)) = 2
    /\ \E k \in 1..Len(log) : log[k].ev = "stop" /\ log[k].rc = 0
    /\ instance = Starts(log)[2].cmd

\* C17: destroy(n) for an unknown n exits 1, and destroy(n) that is not
\* confirmed aborts; both run no command and leave the marker, the profile
\* directories and files, and the instance as they were.
C17_DestroyNeedsConsent ==
    [][ (op'.cmd \in { "destroy", "destroy declined" }
            /\ (op'.arg \notin dirs \/ op'.cmd = "destroy declined"))
        => /\ exit' = 1
           /\ log' = <<>>
           /\ op'.arg \notin dirs => out' = << [msg |-> "Invalid", arg |-> op'.arg] >>
           /\ UNCHANGED <<dirs, run, version, passwd, marker, instance>> ]_vars

C17_Witness ==
    /\ op.cmd = "destroy declined" /\ exit = 1 /\ log = <<>>
    /\ op.arg \in dirs /\ Names(marker, op.arg) /\ ~NoInstance(instance)

C19_PureReads ==
    [][ op'.cmd \in { "status", "list" }
        => /\ log' = <<>>
           /\ UNCHANGED <<dirs, run, version, passwd, marker, instance>> ]_vars

C19_Witness ==
    /\ op.cmd = "status" /\ exit = 1
    /\ NoInstance(instance) /\ marker # <<>>
    /\ out = << [msg |-> "Status: Stopped", arg |-> ""] >>

\* C20: volumes create with a name that is in use, and users add with a
\* user that is in the password file, exit 1 and change nothing: the volume
\* query is the only command of the first, the second runs none.
C20_ConflictsChangeNothing ==
    [][ /\ (op'.cmd = "volumes create"
               /\ \E i \in 1..Len(log') : log'[i].ev = "pv_get" /\ log'[i].rc = 0)
           => /\ exit' = 1 /\ Len(log') = 1
              /\ UNCHANGED <<dirs, run, version, passwd, marker, instance>>
        /\ (op'.cmd = "users add" /\ ~NoInstance(instance) /\ marker # <<>>
               /\ active_profile(marker) \in DOMAIN passwd
               /\ op'.arg \in passwd[active_profile(marker)])
           => /\ exit' = 1 /\ log' = <<>>
              /\ out' = << [msg |-> "Failed: User already exists.", arg |-> ""] >>
              /\ UNCHANGED <<dirs, run, version, passwd, marker, instance>> ]_vars

C20_Witness ==
    /\ op.cmd = "users add" /\ op.arg = "alice" /\ exit = 1 /\ log = <<>>
    /\ out = << [msg |-> "Failed: User already exists.", arg |-> ""] >>
    /\ ~NoInstance(instance) /\ marker # <<>>
    /\ active_profile(marker) \in DOMAIN passwd
    /\ "alice" \in passwd[active_profile(marker)]

\* C21: volumes create with no reachable instance reports "Stopped" and
\* exits non-zero; it runs no query, mkdir, chmod or submission and leaves
\* everything as it was.
C21_VolumesNeedInstance ==
    [][ (op'.cmd = "volumes create" /\ NoInstance(instance))
        => /\ exit' # 0
           /\ log' = <<>>
           /\ out' = << [msg |-> "Stopped", arg |-> ""] >>
           /\ UNCHANGED <<dirs, run, version, passwd, marker, instance>> ]_vars

C21_Witness ==
    /\ op.cmd = "volumes create" /\ exit = 1 /\ log = <<>>
    /\ out = << [msg |-> "Stopped", arg |-> ""] >>
    /\ NoInstance(instance) /\ dirs # {} /\ marker # <<>>

\* The --routing-suffix flags of a command line, and the text of a value.
SuffixFlags(c) == SelectSeq(c, LAMBDA f : f[1] = "--routing-suffix")

RECURSIVE Join(_)
Join(pieces) == IF pieces = <<>> THEN "" ELSE Head(pieces) \o Join(Tail(pieces))

Contains(pieces, piece) == \E k \in 1..Len(pieces) : pieces[k] = piece

\* C22 as stated: with no suffix supplied, a resolved non-loopback address
\* gives one --routing-suffix flag naming the profile and the address and
\* the loopback address gives none; a supplied suffix is emitted unchanged.
C22_RoutingSuffixStated ==
    op.cmd = "build"
    => LET sfx == SuffixFlags(log[1].cmd)
           given == op.options.routing_suffix
       IN  /\ (given = None /\ op.ipaddr \notin { None, "127.0.0.1" })
              => /\ Len(sfx) = 1
                 /\ Contains(sfx[1][2], op.arg) /\ Contains(sfx[1][2], op.ipaddr)
           /\ (given = None /\ op.ipaddr = "127.0.0.1") => sfx = <<>>
           /\ given # None => (Len(sfx) = 1 /\ Join(sfx[1][2]) = given)

\* C22 as amended: as stated, except that a supplied suffix is emitted
\* unchanged only when it is not empty; a supplied empty suffix, like an
\* unresolved address, gives no --routing-suffix flag.
C22_RoutingSuffix ==
    op.cmd = "build"
    => LET sfx == SuffixFlags(log[1].cmd)
           given == op.options.routing_suffix
       IN  /\ (given = None /\ op.ipaddr \notin { None, "127.0.0.1" })
              => /\ Len(sfx) = 1
                 /\ Contains(sfx[1][2], op.arg) /\ Contains(sfx[1][2], op.ipaddr)
           /\ (given = None /\ op.ipaddr \in { None, "127.0.0.1" }) => sfx = <<>>
           /\ given \notin { None, "" } => (Len(sfx) = 1 /\ Join(sfx[1][2]) = given)
           /\ given = "" => sfx = <<>>

C22_Witness ==
    /\ op.cmd = "build" /\ op.arg = "research" /\ op.ipaddr = "10.0.0.5"
    /\ op.options.routing_suffix = None
    /\ Len(SuffixFlags(log[1].cmd)) = 1
    /\ Join(SuffixFlags(log[1].cmd)[1][2]) = "apps.research.10.0.0.5.xip.io"

Count(t, ch) == Cardinality({ k \in 1..Len(t) : t[k] = ch })

\* C23: a --claim value with exactly one "/" converts to the pair of the
\* texts before and after it; a value with none or with more than one is
\* rejected.
C23_ClaimRefParser ==
    op.cmd = "claim-ref"
    => LET r == out[1]
       IN  IF Count(op.arg, "/") = 1
           THEN /\ r.ok /\ exit = 0
                /\ Len(r.value) = 2
                /\ r.value[1] \o << "/" >> \o r.value[2] = op.arg
           ELSE ~r.ok /\ exit # 0

C23_Witness ==
    /\ op.cmd = "claim-ref" /\ op.arg = << "a", "/", "b" >>
    /\ out = << [ok |-> TRUE, value |-> << << "a" >>, << "b" >> >>] >>

\* One or more digits followed by "Gi" or "Mi", and nothing else.
WellFormedSize(t) ==
    \E k \in 1..Len(t) :
        /\ \A j \in 1..k : t[j] \in { "0", "1" }
        /\ Len(t) = k + 2
        /\ t[k + 1] \in { "G", "M" }
        /\ t[k + 2] = "i"

\* C24: a --size value is accepted, and returned unchanged, exactly when it
\* is one or more digits followed by "Gi" or "Mi".
C24_VolumeSizeValidator ==
    op.cmd = "volume-size"
    => /\ out[1].ok <=> WellFormedSize(op.arg)
       /\ out[1].ok => out[1].value = op.arg

\* C25: a confirmed destroy(n) of the active profile whose stop command
\* exits non-zero ends with that status after removing the marker: it runs
\* no cleanup step and n keeps its directory and files.
C25_FailedStopEndsDestroy ==
    [][ (op'.cmd = "destroy" /\ op'.arg \in dirs
            /\ \E i \in 1..Len(log') : log'[i].ev = "stop" /\ log'[i].rc # 0)
        => /\ Len(log') = 2
           /\ log'[1].ev = "stop" /\ log'[2].ev = "unlink_marker"
           /\ exit' = log'[1].rc
           /\ marker' = <<>>
           /\ UNCHANGED <<dirs, run, version, passwd>> ]_vars

C25_Witness ==
    /\ op.cmd = "destroy" /\ exit > 1 /\ Len(log) = 2
    /\ log[1].ev = "stop" /\ log[1].rc = exit
    /\ op.arg \in dirs /\ op.arg \in DOMAIN run /\ marker = <<>>
    /\ ~HasEv(log, "rmtree") /\ ~HasEv(log, "images_query")

\* C26: every profile that has a directory has a persisted run_command.
C26_ListedProfilesReplayable == dirs \subseteq DOMAIN run

\* C27: when up(n) reports "Running" or status reports Running (n), the
\* reachable instance was started from n's run_command.
C27_ReportedProfileRuns ==
    (\/ op.cmd = "status" /\ exit = 0
     \/ op.cmd = "up" /\ exit = 0 /\ log = <<>>)
    => /\ active_profile(marker) \in DOMAIN run
       /\ IsPrefix(run[active_profile(marker)], instance)

\* C28: with an instance reachable and no marker, up(n) exits 1 with a
\* conflict for every n and changes nothing; the marker stays absent while
\* the instance is reachable, and among the commands only down ends that.
C28_UnmarkedInstanceBlocksUp ==
    [][ (~NoInstance(instance) /\ marker = <<>>)
        => /\ op'.cmd = "up"
              => /\ exit' = 1
                 /\ out' = << [msg |-> "Failed: Already running", arg |-> None] >>
                 /\ log' = <<>>
                 /\ UNCHANGED <<dirs, run, version, passwd, marker, instance>>
           /\ ~NoInstance(instance') => marker' = <<>>
           /\ NoInstance(instance') => op'.cmd \in { "down", "stopped outside" } ]_vars

C28_Witness ==
    /\ op.cmd = "up" /\ exit = 1 /\ log = <<>>
    /\ out = << [msg |-> "Failed: Already running", arg |-> None] >>
    /\ ~NoInstance(instance) /\ marker = <<>>
    /\ op.arg \in DOMAIN run /\ IsPrefix(run[op.arg], instance)

\* C29: in every start command that up executes, each --env entry of the
\* invocation appears exactly once.
C29_EnvOnce ==
    op.cmd = "up"
    => \A i \in 1..Len(log) :
          log[i].ev = "start"
          => \A j \in 1..Len(op.env) :
                Cardinality({ k \in 1..Len(log[i].cmd) :
                                log[i].cmd[k] = << "--env", << op.env[j] >> >> }) = 1

\* C30: a password file always holds the developer account.
C30_DeveloperStays == \A p \in DOMAIN passwd : "developer" \in passwd[p]

C30_Witness ==
    /\ op.cmd = "users remove" /\ op.arg = "developer" /\ exit = 1 /\ log = <<>>
    /\ out = << [msg |-> "Failed: Cannot remove developer account.", arg |-> ""] >>
    /\ ~NoInstance(instance) /\ marker # <<>>
    /\ active_profile(marker) \in DOMAIN passwd
    /\ passwd[active_profile(marker)] = { "developer", "alice" }

====
